---------------------------- MODULE Spec2Model ----------------------------
(***************************************************************************)
(* Model of the WebRTC renderer of jiomosa (src/webrtc_renderer):          *)
(*   - BrowserPool (browser_pool.py): sessions, activity timestamps, the   *)
(*     pool lock, the stale-session reaper;                                *)
(*   - WebRTCManager / WebRTCPeer (webrtc_manager.py): the peer registry   *)
(*     and its lock;                                                       *)
(*   - the control plane and the signaling endpoint (main.py).             *)
(*                                                                         *)
(* The program is an asyncio program: one event loop, cooperative tasks.   *)
(* A task runs without interruption from one suspension point to the next. *)
(* The suspension points are the awaits that really yield: a driver RPC    *)
(* (Playwright / aiortc call), a wait for a contended asyncio.Lock, a      *)
(* websocket receive, a sleep.  An uncontended asyncio.Lock.acquire and a  *)
(* coroutine without an inner await (BrowserPool.get_page) do not yield.   *)
(* Accordingly every action below runs one task from a suspension point to *)
(* its next one (RunTask).                                                 *)
(***************************************************************************)
EXTENDS Integers, Sequences, FiniteSets, TLC

\* ------------------------------------------------------------------ bounds

\* The clock runs from 0 to MaxTime; one tick is one idle-timeout period.
MaxTime == 2

\* A peer's data channel receives at most MaxMessages input messages.
MaxMessages == 2

\* A video track delivers at most MaxFrames frames, an audio track at most
\* MaxAudioFrames.
MaxFrames == 3
MaxAudioFrames == 3

\* time.time() when the video track is constructed, and the longest time
\* (in frame intervals) between two recv calls and in a screenshot RPC.
Epoch == 5
MaxGap == 2
MaxRpc == 2
\* frames transmitted to one streaming client
MaxSent == 3
\* samples recorded by one bandwidth monitor
MaxRecorded == 5

\* ------------------------------------------------------- program constants

\* settings.browser_max_sessions (default 10), here configured to 2.
browser_max_sessions == 2

\* settings.browser_session_timeout (default 120 s), in clock ticks.
browser_session_timeout == 1

\* settings.audio_sample_rate
audio_sample_rate == 48000

\* BrowserAudioTrack.samples_per_frame = int(sample_rate * 0.02)
samples_per_frame == (audio_sample_rate * 2) \div 100

\* BrowserVideoTrack.frame_interval = 1.0 / fps, the unit of the wall clock
frame_interval == 1

\* settings.webrtc_video_width x settings.webrtc_video_height
DefaultViewport == "720x1280"

\* BandwidthMonitor: times are in ticks of 50 ms and frame sizes in units of
\* 6250 bytes, so that a bandwidth in Mbps is units per tick.
\* self.max_history (30 frames, scaled)
max_history == 3
\* self.adjustment_interval: 5 seconds
adjustment_interval == 100
\* `if time_delta < 0.1`: 100 ms
min_time_delta == 2

\* ---------------------------------------------------------------- universe

SessionIds == {"s1", "s2", "s3"}
\* width/height of a create request: absent (None) or a custom size
ReqDims == {"None", "360x640"}
HttpTasks == {"h1", "h2"}
\* one task per signaling connection; the connection's peer_id is its name
WsTasks == {"w1", "w2"}
ReaperTask == "reaper"
\* the socket ids of the clients of the frame streaming handler
ClientIds == {"c1", "c2"}
Tasks == HttpTasks \cup WsTasks \cup {ReaperTask}

VARIABLES
    pages,               \* BrowserPool.pages (keys) = contexts = cdp_sessions
    viewport,            \* page.viewport_size of each page
    session_timestamps,  \* BrowserPool.session_timestamps, in insertion order
    pool_lock,           \* BrowserPool._lock
    peers,               \* WebRTCManager.peers, in insertion order
    peer_pc,             \* RTCPeerConnection state of the peer object of a connection
    mgr_lock,            \* WebRTCManager._lock
    now,                 \* datetime.now()
    task,                \* the control state and locals of every task
    handlers,            \* the _handle_data_channel_message tasks not yet ended
    dc_count,            \* messages received so far on each peer's data channel
    dc_errors,           \* logger.error lines of each peer's message handlers
    video,               \* one BrowserVideoTrack
    wall,                \* time.time()
    audio,               \* one BrowserAudioTrack
    client_quality,      \* WebSocketHandler.client_quality
    client_fps,          \* WebSocketHandler.client_fps
    adaptive_mode,       \* WebSocketHandler.adaptive_mode
    bandwidth_monitors,  \* WebSocketHandler.bandwidth_monitors
    clock,               \* time.time() of the frame streaming process
    sent,                \* frames transmitted so far to each client
    adjustments,         \* the adaptive adjustments made so far
    client_sessions,     \* WebSocketHandler.client_sessions
    connected,           \* the sids of the connected Socket.IO clients
    client_audio_sessions, \* AudioStreamer.client_audio_sessions
    audio_captures       \* the keys of AudioStreamer.audio_captures

poolVars == <<pages, viewport, session_timestamps, pool_lock, peers, peer_pc,
              mgr_lock, now, task>>
inputVars == <<handlers, dc_count, dc_errors>>
mediaVars == <<video, wall, audio>>
sioVars == <<connected, client_audio_sessions, audio_captures>>
streamVars == <<client_quality, client_fps, adaptive_mode, bandwidth_monitors,
                clock, sent, adjustments, client_sessions, sioVars>>
vars == <<poolVars, inputVars, mediaVars, streamVars>>

\* ------------------------------------------------------------- data helpers

SeqToSet(q) == {q[i] : i \in 1..Len(q)}

\* `del d[x]` of an insertion-ordered dict
RECURSIVE Without(_, _)
Without(q, x) ==
    IF q = <<>> THEN <<>>
    ELSE IF Head(q).id = x THEN Without(Tail(q), x)
    ELSE <<Head(q)>> \o Without(Tail(q), x)

\* the keys of an insertion-ordered dict
Keys(d) == {d[i].id : i \in 1..Len(d)}

\* d[k] of an insertion-ordered dict
Lookup(d, k) == d[CHOOSE i \in 1..Len(d) : d[i].id = k]

\* d[k] = v of a Python dict: an existing key keeps its place, a new key
\* goes last
Store(d, k, v) ==
    IF k \in Keys(d)
    THEN [i \in 1..Len(d) |-> IF d[i].id = k THEN v ELSE d[i]]
    ELSE Append(d, v)

FreeLock == [holder |-> "none", waiters |-> <<>>]

\* the url local of a task that serves no load request
NoUrl == [scheme |-> "-", path |-> "-"]

IdleTask(t) ==
    [pc   |-> IF t \in HttpTasks THEN "idle"
              ELSE IF t \in WsTasks THEN "ws_off" ELSE "r_sleep",
     op   |-> "none",     \* the request being served
     sid  |-> "none",     \* session_id of the request / of the join
     dims |-> "None",     \* width/height of a create request
     res  |-> "none",     \* the response / the last signaling reply
     todo |-> <<>>,       \* peers_to_close / stale_sessions still to visit
     ret  |-> <<>>,       \* return labels of the calls in progress
     cp   |-> "none",     \* peer_id of the close_peer in progress
     cs   |-> "none",     \* session_id of the close_session in progress
     rnow |-> 0,          \* the reaper's now
     url  |-> NoUrl]      \* str(data.url) of a load request

\* The whole program state as one record, so that a task's run between two
\* suspension points can be computed step by step.
State ==
    [pages |-> pages, viewport |-> viewport,
     session_timestamps |-> session_timestamps, pool_lock |-> pool_lock,
     peers |-> peers, peer_pc |-> peer_pc, mgr_lock |-> mgr_lock,
     now |-> now, task |-> task]

Becomes(s) ==
    /\ pages' = s.pages
    /\ viewport' = s.viewport
    /\ session_timestamps' = s.session_timestamps
    /\ pool_lock' = s.pool_lock
    /\ peers' = s.peers
    /\ peer_pc' = s.peer_pc
    /\ mgr_lock' = s.mgr_lock
    /\ now' = s.now
    /\ task' = s.task
    /\ UNCHANGED <<inputVars, mediaVars, streamVars>>


\* ------------------------------------------------------------ asyncio.Lock

\* asyncio.Lock.acquire by task t: taken at once when the lock is free (no
\* yield), otherwise t queues behind the waiters and suspends at label wait.
\* The lock is not reentrant: a holder that acquires again queues behind
\* itself.
Acquire(s, lk, t, got, wait) ==
    IF s[lk].holder = "none"
    THEN [s EXCEPT ![lk].holder = t, !.task[t].pc = got]
    ELSE [s EXCEPT ![lk].waiters = Append(@, t), !.task[t].pc = wait]

\* asyncio.Lock.release: the first waiter is woken and owns the lock next
\* (a newcomer queues behind a woken waiter).
Release(s, lk) ==
    IF s[lk].waiters = <<>>
    THEN [s EXCEPT ![lk].holder = "none"]
    ELSE [s EXCEPT ![lk].holder = Head(s[lk].waiters),
                   ![lk].waiters = Tail(@)]

\* task t, suspended in acquire, has been handed the lock
Granted(lk, t) == lk.holder = t /\ t \notin SeqToSet(lk.waiters)

\* ------------------------------------------------------------ call / return

Call(s, t, entry, back) ==
    [s EXCEPT !.task[t].pc = entry, !.task[t].ret = <<back>> \o @]

Return(s, t) ==
    [s EXCEPT !.task[t].pc = Head(s.task[t].ret), !.task[t].ret = Tail(@)]

\* --------------------------------------------- BrowserPool (browser_pool.py)

\* `if session_id in self.pages` (create_session)
AlreadyExists(s, sid) == sid \in s.pages

\* a capacity test that is off by one: it lets the pool grow one session
\* beyond the maximum
AtCapacityOffByOne(s) == Cardinality(s.pages) > browser_max_sessions

\* `if len(self.pages) >= settings.browser_max_sessions`
AtCapacity(s) == Cardinality(s.pages) >= browser_max_sessions

\* `width or settings.webrtc_video_width`, `height or ...`
ViewportOf(dims) == IF dims = "None" THEN DefaultViewport ELSE dims

\* a create_session that reports a full pool but goes on creating the
\* session all the same
CreateCheckThrough(s, t) ==
    LET sid == s.task[t].sid IN
    IF AlreadyExists(s, sid)
    THEN Return([Release(s, "pool_lock") EXCEPT !.task[t].res = "Session"], t)
    ELSE [s EXCEPT !.task[t].pc = "create_rpc",
                   !.task[t].res = IF AtCapacity(s) THEN "AtCapacity" ELSE @]

\* create_session under the lock, up to the first driver RPC: an existing id
\* returns the existing page, a full pool raises RuntimeError, otherwise the
\* context is being created (lock held across the RPC).
CreateCheck(s, t) ==
    LET sid == s.task[t].sid IN
    IF AlreadyExists(s, sid)
    THEN Return([Release(s, "pool_lock") EXCEPT !.task[t].res = "Session"], t)
    ELSE IF AtCapacity(s)
    THEN Return([Release(s, "pool_lock") EXCEPT !.task[t].res = "AtCapacity"], t)
    ELSE [s EXCEPT !.task[t].pc = "create_rpc"]

\* a create_session that stores the page before the CDP set-up, so that a
\* failure of the set-up leaves the id in the pool
CreateStoreEarly(s, t, ok) ==
    LET sid == s.task[t].sid IN
    Return([Release(s, "pool_lock") EXCEPT
              !.pages = @ \cup {sid},
              !.viewport = [x \in s.pages \cup {sid} |->
                              IF x = sid THEN ViewportOf(s.task[t].dims)
                              ELSE s.viewport[x]],
              !.session_timestamps =
                  Store(@, sid, [id |-> sid, at |-> s.now]),
              !.task[t].res = IF ok THEN "Session" ELSE "Internal"], t)

\* create_session after new_context / new_page / the CDP set-up returned:
\* the references are stored and the page returned; a driver error is
\* re-raised.  Either way the lock is released.
CreateStore(s, t, ok) ==
    LET sid == s.task[t].sid IN
    IF ok
    THEN Return([Release(s, "pool_lock") EXCEPT
                   !.pages = @ \cup {sid},
                   !.viewport = [x \in s.pages \cup {sid} |->
                                   IF x = sid THEN ViewportOf(s.task[t].dims)
                                   ELSE s.viewport[x]],
                   !.session_timestamps =
                       Store(@, sid, [id |-> sid, at |-> s.now]),
                   !.task[t].res = "Session"], t)
    ELSE Return([Release(s, "pool_lock") EXCEPT !.task[t].res = "Internal"], t)

\* close_session under the lock: an unknown id returns at once, otherwise
\* page.close() is awaited with the lock held.
CloseCheck(s, t) ==
    IF s.task[t].cs \notin s.pages
    THEN Return([Release(s, "pool_lock") EXCEPT !.task[t].cs = "none"], t)
    ELSE [s EXCEPT !.task[t].pc = "cs_rpc"]

\* the dictionaries after `del self.pages[sid]; del self.contexts[sid];
\* del self.session_timestamps[sid]`
Forget(s, sid) ==
    [s EXCEPT !.pages = @ \ {sid},
              !.viewport = [x \in s.pages \ {sid} |-> s.viewport[x]],
              !.session_timestamps = Without(@, sid)]

\* close_session after page.close() / context.close(): on success the entries
\* are deleted; an exception is caught and logged, and nothing is deleted.
CloseFinish(s, t, ok) ==
    LET sid == s.task[t].cs
        d   == IF ok THEN Forget(s, sid) ELSE s
    IN Return([Release(d, "pool_lock") EXCEPT !.task[t].cs = "none"], t)

\* BrowserPool.get_stats, the "sessions" member of the answer of
\* GET /api/sessions (no suspension point between the call and the answer)
get_stats ==
    [active_sessions |-> Cardinality(pages),
     max_sessions    |-> browser_max_sessions,
     sessions        |-> pages]

\* `now - timestamp > timeout_delta`
IsStale(entry, at) == at - entry.at > browser_session_timeout

\* the list comprehension of cleanup_stale_sessions
RECURSIVE StaleSessions(_, _)
StaleSessions(d, at) ==
    IF d = <<>> THEN <<>>
    ELSE (IF IsStale(Head(d), at) THEN <<Head(d).id>> ELSE <<>>)
         \o StaleSessions(Tail(d), at)

\* cleanup_stale_sessions under the lock: the stale ids are collected and the
\* lock is released before any session is closed.
ReaperScan(s, t) ==
    [Release(s, "pool_lock") EXCEPT
        !.task[t].todo = StaleSessions(s.session_timestamps, s.task[t].rnow),
        !.task[t].pc = "r_loop"]

\* `for session_id in stale_sessions: await self.close_session(session_id)`
ReaperLoop(s, t) ==
    IF s.task[t].todo = <<>>
    THEN [s EXCEPT !.task[t] = IdleTask(t)]
    ELSE Call([s EXCEPT !.task[t].cs = Head(s.task[t].todo),
                        !.task[t].todo = Tail(@)], t, "cs_lock", "r_loop")

\* ------------------------------------------- WebRTCManager (webrtc_manager.py)

\* the peer ids bound to a session, in registry order
RECURSIVE PeersOf(_, _)
PeersOf(d, sid) ==
    IF d = <<>> THEN <<>>
    ELSE (IF Head(d).session_id = sid THEN <<Head(d).id>> ELSE <<>>)
         \o PeersOf(Tail(d), sid)

\* close_peer under the lock: an unknown peer returns at once (and closes no
\* session), otherwise peer.close() is awaited with the lock held.
ClosePeerCheck(s, t) ==
    IF s.task[t].cp \notin Keys(s.peers)
    THEN Return([Release(s, "mgr_lock") EXCEPT !.task[t].cp = "none"], t)
    ELSE [s EXCEPT !.task[t].pc = "cp_rpc"]

\* close_peer with the session closed inside the `async with self._lock`
\* block: the registry lock is still held when the pool lock is taken.
ClosePeerFinishLocked(s, t) ==
    LET p   == s.task[t].cp
        sid == Lookup(s.peers, p).session_id
    IN [s EXCEPT
           !.peers = Without(@, p),
           !.peer_pc[p] = "closed",
           !.task[t].cp = "none",
           !.task[t].cs = sid,
           !.task[t].pc = "cs_lock"]

\* close_peer after peer.close(): the peer is deleted, the lock released and
\* then the peer's browser session is closed in the pool.
ClosePeerFinish(s, t) ==
    LET p   == s.task[t].cp
        sid == Lookup(s.peers, p).session_id
    IN [Release(s, "mgr_lock") EXCEPT
           !.peers = Without(@, p),
           !.peer_pc[p] = "closed",
           !.task[t].cp = "none",
           !.task[t].cs = sid,
           !.task[t].pc = "cs_lock"]

\* create_peer under the lock: an existing peer id is closed first, by a call
\* of close_peer made with the lock held.
CreatePeerCheck(s, t) ==
    IF t \in Keys(s.peers)
    THEN Call([s EXCEPT !.task[t].cp = t], t, "cp_lock", "mk_new")
    ELSE [s EXCEPT !.task[t].pc = "mk_new"]

\* `peer = WebRTCPeer(session_id, peer_id); self.peers[peer_id] = peer`, and
\* back in websocket_signaling, `await peer.create_offer()`
CreatePeerStore(s, t) ==
    [Release(s, "mgr_lock") EXCEPT
        !.peers = Store(@, t, [id |-> t, session_id |-> s.task[t].sid]),
        !.peer_pc[t] = "new",
        !.task[t].pc = "offer_rpc"]

\* close_all_peers_for_session: the loop over the snapshot peers_to_close,
\* then (main.close_session) browser_pool.close_session
CloseAllLoop(s, t) ==
    IF s.task[t].todo = <<>>
    THEN [s EXCEPT !.task[t].cs = s.task[t].sid, !.task[t].pc = "cs_lock"]
    ELSE Call([s EXCEPT !.task[t].cp = Head(s.task[t].todo),
                        !.task[t].todo = Tail(@)], t, "cp_lock", "ca_loop")

\* ------------------------------------------------------------ the scheduler

\* the labels at which a task is suspended (or has ended)
Suspended ==
    {"idle", "done", "create_wait", "create_rpc", "cs_wait", "cs_rpc",
     "cp_wait", "cp_rpc", "mk_wait", "offer_rpc", "nav_rpc",
     "ws_off", "ws_recv", "ws_closed", "r_sleep", "r_wait"}

\* one step of task t that does not yield
Step(s, t) ==
    LET pc == s.task[t].pc IN
    CASE pc = "create_lock" -> Acquire(s, "pool_lock", t, "create_chk", "create_wait")
      [] pc = "create_chk"  -> CreateCheck(s, t)
      [] pc = "cs_lock"     -> Acquire(s, "pool_lock", t, "cs_chk", "cs_wait")
      [] pc = "cs_chk"      -> CloseCheck(s, t)
      [] pc = "cp_lock"     -> Acquire(s, "mgr_lock", t, "cp_chk", "cp_wait")
      [] pc = "cp_chk"      -> ClosePeerCheck(s, t)
      [] pc = "mk_lock"     -> Acquire(s, "mgr_lock", t, "mk_chk", "mk_wait")
      [] pc = "mk_chk"      -> CreatePeerCheck(s, t)
      [] pc = "mk_new"      -> CreatePeerStore(s, t)
      [] pc = "ca_loop"     -> CloseAllLoop(s, t)
      [] pc = "r_lock"      -> Acquire(s, "pool_lock", t, "r_scan", "r_wait")
      [] pc = "r_scan"      -> ReaperScan(s, t)
      [] pc = "r_loop"      -> ReaperLoop(s, t)
      [] pc = "ws_end"      -> [s EXCEPT !.task[t] =
                                  [IdleTask(t) EXCEPT !.pc = "ws_closed"]]
      [] pc = "http_close"  -> [s EXCEPT !.task[t].res = "ok",
                                         !.task[t].pc = "done"]
      [] pc = "http_done"   -> [s EXCEPT !.task[t].pc = "done"]

\* task t runs until it suspends
RECURSIVE RunTask(_, _)
RunTask(s, t) ==
    IF s.task[t].pc \in Suspended THEN s ELSE RunTask(Step(s, t), t)


\* -------------------------------------------------------------------- Init

PoolInit ==
    /\ pages = {}
    /\ viewport = << >>
    /\ session_timestamps = <<>>
    /\ pool_lock = FreeLock
    /\ peers = <<>>
    /\ peer_pc = [p \in WsTasks |-> "none"]
    /\ mgr_lock = FreeLock
    /\ now = 0
    /\ task = [t \in Tasks |-> IdleTask(t)]

\* no input message has been received
InputInit ==
    /\ handlers = <<>>
    /\ dc_count = [p \in WsTasks |-> 0]
    /\ dc_errors = [p \in WsTasks |-> 0]

\* BrowserVideoTrack.__init__
NewVideoTrack ==
    [running         |-> TRUE,
     frame_count     |-> 0,
     last_screenshot |-> FALSE,  \* _last_screenshot_bytes is not None
     frames_skipped  |-> 0,
     frame_deadline  |-> 0,
     last_frame_time |-> 0,
     pc              |-> "idle", \* "shot": recv awaits browser_pool.screenshot
     pts             |-> <<>>,   \* frame.pts of the frames recv returned
     kinds           |-> <<>>]   \* what each returned frame shows

\* BrowserAudioTrack.__init__, the capture process started or not
NewAudioTrack(proc) ==
    [running     |-> TRUE,
     frame_count |-> 0,
     buffer      |-> "empty",    \* _audio_buffer: empty, a whole frame, less
     chunks      |-> 0,          \* chunks the read loop has read so far
     proc        |-> proc,       \* _audio_process: none, alive, dead
     pts         |-> <<>>,       \* frame.pts of the frames recv returned
     silent      |-> <<>>,       \* whether each returned frame is silence
     data        |-> <<>>]       \* the chunk each frame carries, 0 for silence

MediaInit ==
    /\ video = NewVideoTrack
    /\ wall = Epoch
    /\ audio = NewAudioTrack("none")

\* WebSocketHandler.__init__: every per-client dictionary is empty
StreamInit ==
    /\ client_quality = << >>
    /\ client_fps = << >>
    /\ adaptive_mode = << >>
    /\ bandwidth_monitors = << >>
    /\ clock = 0
    /\ sent = [c \in ClientIds |-> 0]
    /\ adjustments = <<>>
    /\ client_sessions = << >>
    /\ connected = {}
    /\ client_audio_sessions = << >>
    /\ audio_captures = {}

Init == PoolInit /\ InputInit /\ MediaInit /\ StreamInit

\* ------------------------------------- control plane (main.py, REST handlers)

\* POST /api/session/create: browser_pool.create_session(session_id, w, h)
HttpCreate(t, sid, dims) ==
    /\ task[t].pc = "idle"
    /\ Becomes(RunTask([State EXCEPT
           !.task[t].op = "create", !.task[t].sid = sid,
           !.task[t].dims = dims, !.task[t].ret = <<"http_done">>,
           !.task[t].pc = "create_lock"], t))

\* DELETE /api/session/{id}: close_all_peers_for_session, then
\* browser_pool.close_session; the answer is always success
HttpClose(t, sid) ==
    /\ task[t].pc = "idle"
    /\ Becomes(RunTask([State EXCEPT
           !.task[t].op = "close", !.task[t].sid = sid,
           !.task[t].todo = PeersOf(peers, sid),
           !.task[t].ret = <<"http_close">>,
           !.task[t].pc = "ca_loop"], t))

\* POST /api/session/{id}/load: browser_pool.navigate; an unknown session
\* raises ValueError (404), otherwise page.goto is awaited
HttpLoad(t, sid) ==
    /\ task[t].pc = "idle"
    /\ Becomes([State EXCEPT
           !.task[t].op = "load", !.task[t].sid = sid,
           !.task[t].res = IF sid \in pages THEN "none" ELSE "NotFound",
           !.task[t].pc = IF sid \in pages THEN "nav_rpc" ELSE "done"])

\* page.goto returned: the activity timestamp is set and the answer is
\* success; when it raised (a timeout included) navigate returns False and
\* the answer is 500
NavReturn(t, ok) ==
    /\ task[t].pc = "nav_rpc"
    /\ Becomes([State EXCEPT
           !.session_timestamps =
               IF ok THEN Store(@, task[t].sid,
                                [id |-> task[t].sid, at |-> now])
               ELSE @,
           !.task[t].res = IF ok THEN "ok" ELSE "Internal",
           !.task[t].pc = "done"])

\* the URLs of load requests, host example.com: without a scheme
\* ("example.com"), with http, https or another scheme, and one with a path
Urls ==
    [scheme : {"", "http", "https", "ftp"}, path : {""}]
    \cup {[scheme |-> "https", path |-> "/a"]}

\* URLLoad.url: HttpUrl accepts the schemes http and https only; a request
\* whose body fails validation is answered 422 before the handler runs
HttpUrl(url) == url.scheme \in {"http", "https"}

\* str(data.url): an empty path is written as "/"
UrlString(url) == [url EXCEPT !.path = IF @ = "" THEN "/" ELSE @]

\* a load that navigates without looking the page up
HttpLoadUrlUnchecked(t, sid, url) ==
    /\ task[t].pc = "idle"
    /\ Becomes([State EXCEPT
           !.task[t].op = "load", !.task[t].sid = sid,
           !.task[t].url = UrlString(url),
           !.task[t].pc = "nav_rpc"])

\* POST /api/session/{id}/load with body {"url": url}: validation of the
\* body, then load_url as in HttpLoad, navigating to str(data.url)
HttpLoadUrl(t, sid, url) ==
    /\ task[t].pc = "idle"
    /\ IF HttpUrl(url)
       THEN Becomes([State EXCEPT
               !.task[t].op = "load", !.task[t].sid = sid,
               !.task[t].url = UrlString(url),
               !.task[t].res = IF sid \in pages THEN "none" ELSE "NotFound",
               !.task[t].pc = IF sid \in pages THEN "nav_rpc" ELSE "done"])
       ELSE Becomes([State EXCEPT
               !.task[t].op = "load", !.task[t].sid = sid,
               !.task[t].res = "Unprocessable",
               !.task[t].pc = "done"])

\* page.goto(url, timeout=30000) ran into its timeout: the TimeoutError is
\* caught like every exception, navigate returns False and the answer is 500
NavTimeout(t) ==
    /\ task[t].pc = "nav_rpc"
    /\ Becomes([State EXCEPT !.task[t].res = "Internal",
                             !.task[t].pc = "done"])

\* the response is sent and the handler ends
HttpRespond(t) ==
    /\ task[t].pc = "done"
    /\ task' = [task EXCEPT ![t] = IdleTask(t)]
    /\ UNCHANGED <<pages, viewport, session_timestamps, pool_lock, peers,
                   peer_pc, mgr_lock, now, inputVars, mediaVars, streamVars>>

\* ------------------------------------------------- resumption of a task

WaitLabels == {"create_wait", "cs_wait", "cp_wait", "mk_wait", "r_wait"}

AfterWait(pc) ==
    CASE pc = "create_wait" -> "create_chk"
      [] pc = "cs_wait"     -> "cs_chk"
      [] pc = "cp_wait"     -> "cp_chk"
      [] pc = "mk_wait"     -> "mk_chk"
      [] pc = "r_wait"      -> "r_scan"

LockOf(pc) == IF pc \in {"cp_wait", "mk_wait"} THEN mgr_lock ELSE pool_lock

\* a task waiting in `async with self._lock` is handed the lock and goes on
LockGranted(t) ==
    /\ task[t].pc \in WaitLabels
    /\ Granted(LockOf(task[t].pc), t)
    /\ Becomes(RunTask([State EXCEPT !.task[t].pc = AfterWait(task[t].pc)], t))

\* browser.new_context ... cdp_session.send returned, or one of them raised
CreateRpcReturn(t, ok) ==
    /\ task[t].pc = "create_rpc"
    /\ Becomes(RunTask(CreateStore(State, t, ok), t))

\* page.close() and context.close() returned, or one of them raised
CloseRpcReturn(t, ok) ==
    /\ task[t].pc = "cs_rpc"
    /\ Becomes(RunTask(CloseFinish(State, t, ok), t))

\* peer.close() returned
PeerCloseReturn(t) ==
    /\ task[t].pc = "cp_rpc"
    /\ Becomes(RunTask(ClosePeerFinish(State, t), t))

\* ---------------------------------------- signaling (main.websocket_signaling)

\* a client connects: websocket.accept(), peer_id = uuid4()
WsConnect(t) ==
    /\ task[t].pc = "ws_off"
    /\ task' = [task EXCEPT ![t].pc = "ws_recv"]
    /\ UNCHANGED <<pages, viewport, session_timestamps, pool_lock, peers,
                   peer_pc, mgr_lock, now, inputVars, mediaVars, streamVars>>

\* {"type": "join", "session_id": sid}: an unknown session is answered with an
\* error and the loop continues; otherwise create_peer and create_offer
WsJoin(t, sid) ==
    /\ task[t].pc = "ws_recv"
    /\ IF sid \in pages
       THEN Becomes(RunTask([State EXCEPT !.task[t].sid = sid,
                                          !.task[t].res = "none",
                                          !.task[t].pc = "mk_lock"], t))
       ELSE Becomes([State EXCEPT !.task[t].sid = sid,
                                  !.task[t].res = "error"])

\* peer.create_offer() returned and the offer is sent, or it raised: the
\* handler's `finally` closes the peer
OfferReturn(t, ok) ==
    /\ task[t].pc = "offer_rpc"
    /\ IF ok
       THEN Becomes([State EXCEPT !.task[t].res = "offer",
                                  !.task[t].pc = "ws_recv"])
       ELSE Becomes(RunTask([State EXCEPT !.task[t].cp = t,
                                          !.task[t].ret = <<"ws_end">>,
                                          !.task[t].pc = "cp_lock"], t))

\* WebSocketDisconnect in receive_text: `finally: close_peer(peer_id)`
WsDisconnect(t) ==
    /\ task[t].pc = "ws_recv"
    /\ Becomes(RunTask([State EXCEPT !.task[t].cp = t,
                                     !.task[t].ret = <<"ws_end">>,
                                     !.task[t].pc = "cp_lock"], t))

\* on_connectionstatechange with connectionState "failed": the peer object
\* closes itself (tracks stopped, `await self.pc.close()`); nothing else is
\* called
PeerFailed(p) ==
    /\ p \in Keys(peers)
    /\ peer_pc[p] = "new"
    /\ peer_pc' = [peer_pc EXCEPT ![p] = "failed"]
    /\ UNCHANGED <<pages, viewport, session_timestamps, pool_lock, peers,
                   mgr_lock, now, task, inputVars, mediaVars, streamVars>>

\* ------------------------------------------- the reaper (lifespan.cleanup_task)

\* asyncio.sleep(session_cleanup_interval) is over: cleanup_stale_sessions
ReaperWake ==
    /\ task[ReaperTask].pc = "r_sleep"
    /\ Becomes(RunTask([State EXCEPT !.task[ReaperTask].rnow = now,
                                     !.task[ReaperTask].pc = "r_lock"],
                       ReaperTask))

\* time passes
Tick ==
    /\ now < MaxTime
    /\ now' = now + 1
    /\ UNCHANGED <<pages, viewport, session_timestamps, pool_lock, peers,
                   peer_pc, mgr_lock, task, inputVars, mediaVars, streamVars>>

\* ------------------------------- the input path (WebRTCPeer, webrtc_manager.py)

\* the message kinds of the data channel: input events (a pointer and a
\* keyboard one stand for the four the handler knows), and a message that is
\* not valid JSON
InputKinds == {"click", "key", "bad"}

\* the messages of the validation scenario: a click inside the viewport, a
\* click without "x", a click outside the viewport, a key of the legacy key
\* map, a key outside it (one the driver's keyboard knows), and a message
\* that is not valid JSON
ChannelKinds ==
    {"click", "click_no_x", "click_outside", "key", "key_f5", "bad"}

\* json.loads(message) for each message kind that is valid JSON
Parsed(kind) ==
    CASE kind = "click"         -> [type |-> "click", x |-> 100, y |-> 200]
      [] kind = "click_no_x"    -> [type |-> "click", y |-> 200]
      [] kind = "click_outside" -> [type |-> "click", x |-> 5000, y |-> 200]
      [] kind = "key"           -> [type |-> "key", key |-> "Enter"]
      [] kind = "key_f5"        -> [type |-> "key", key |-> "F5"]

\* data.get(k, default)
Field(data, k, default) == IF k \in DOMAIN data THEN data[k] ELSE default

\* the driver call _handle_data_channel_message makes for a parsed message:
\* browser_pool.click(session_id, x, y) -> page.mouse.click(x, y),
\* browser_pool.press_key(session_id, key) -> page.keyboard.press(key)
DriverCallOf(data) ==
    IF data.type = "click"
    THEN [method |-> "mouse.click",
          args   |-> <<Field(data, "x", 0), Field(data, "y", 0)>>]
    ELSE [method |-> "keyboard.press",
          args   |-> <<Field(data, "key", "")>>]

\* the key names BrowserSession.send_key of the legacy renderer maps
key_map ==
    {"Enter", "Backspace", "Tab", "Escape", "Delete", "ArrowUp", "ArrowDown",
     "ArrowLeft", "ArrowRight", "Home", "End", "PageUp", "PageDown", "Space"}

\* width and height of a viewport
ViewportSize(v) ==
    IF v = "360x640" THEN [width |-> 360, height |-> 640]
    ELSE [width |-> 720, height |-> 1280]

\* q cut off before its i-th element
RemoveFrom(q, i) == SubSeq(q, 1, i - 1)

\* q without its i-th element
RemoveAt(q, i) == SubSeq(q, 1, i - 1) \o SubSeq(q, i + 1, Len(q))

\* on_message: asyncio.create_task(self._handle_data_channel_message(message))
DcReceive(p, kind) ==
    /\ p \in Keys(peers)
    /\ dc_count[p] < MaxMessages
    /\ dc_count' = [dc_count EXCEPT ![p] = @ + 1]
    /\ handlers' = Append(handlers, [peer |-> p, n |-> dc_count[p] + 1,
                                     kind |-> kind, pc |-> "ready"])
    /\ UNCHANGED <<poolVars, dc_errors, mediaVars, streamVars>>

\* the event loop starts the tasks in the order of their creation
NextToStart(q, i) ==
    /\ q[i].pc = "ready"
    /\ \A j \in 1..(i - 1) : q[j].pc # "ready"

\* whether the handler of a message gets as far as a driver call:
\* json.loads raises on invalid JSON, and browser_pool.click / type_text /
\* press_key raise ValueError for a session that has no page
ReachesDriver(h) ==
    /\ h.kind # "bad"
    /\ Lookup(peers, h.peer).session_id \in pages

\* _handle_data_channel_message up to its await of the driver call
\* (page.mouse.click, page.keyboard.type, page.keyboard.press); an exception
\* is logged and ends the handler
HandlerStart(i) ==
    /\ i \in 1..Len(handlers)
    /\ NextToStart(handlers, i)
    /\ handlers' = IF ReachesDriver(handlers[i])
                   THEN [handlers EXCEPT ![i].pc = "rpc"]
                   ELSE RemoveAt(handlers, i)
    /\ dc_errors' = IF ReachesDriver(handlers[i])
                    THEN dc_errors
                    ELSE [dc_errors EXCEPT ![handlers[i].peer] = @ + 1]
    /\ UNCHANGED <<poolVars, dc_count, mediaVars, streamVars>>

\* the driver call returned (the activity timestamp is set) or raised (the
\* error is logged): the handler ends
HandlerEnd(i, ok) ==
    /\ i \in 1..Len(handlers)
    /\ handlers[i].pc = "rpc"
    /\ handlers' = RemoveAt(handlers, i)
    /\ session_timestamps' =
          IF ok
          THEN LET sid == Lookup(peers, handlers[i].peer).session_id
               IN Store(session_timestamps, sid, [id |-> sid, at |-> now])
          ELSE session_timestamps
    /\ dc_errors' = IF ok
                    THEN dc_errors
                    ELSE [dc_errors EXCEPT ![handlers[i].peer] = @ + 1]
    /\ UNCHANGED <<pages, viewport, pool_lock, peers, peer_pc, mgr_lock, now,
                   task, dc_count, mediaVars, streamVars>>

\* the driver commands in flight for the one session of the input scenario:
\* those of the input handlers, of the control plane's navigate and of the
\* video track's screenshot
InFlight ==
    {<<handlers[i].peer, handlers[i].n>> :
        i \in {j \in 1..Len(handlers) : handlers[j].pc = "rpc"}}
    \cup {<<t, "navigate">> : t \in {u \in HttpTasks : task[u].pc = "nav_rpc"}}
    \cup {<<"video", "screenshot">> : x \in {y \in {video.pc} : y = "shot"}}

\* ------------------------------------- BrowserVideoTrack (video_track.py)

\* a skip test that fires as soon as the deadline has passed
BehindDeadline(current_time, deadline, cached) ==
    current_time > deadline /\ cached

\* `current_time > self._frame_deadline + self.frame_interval and
\*  self._last_screenshot_bytes is not None`
Behind(current_time, deadline, cached) ==
    current_time > deadline + frame_interval /\ cached

\* a frame made by _create_video_frame (its pts is _frame_count), after
\* which the caller counts it: `self._frame_count += 1`
CountedFrame(v, kind) ==
    [v EXCEPT !.pts = Append(@, v.frame_count),
              !.kinds = Append(@, kind),
              !.frame_count = @ + 1,
              !.pc = "idle"]

\* `return await self._create_blank_frame()`: its pts is _frame_count, and
\* recv returns without counting the frame
BlankFrame(v) ==
    [v EXCEPT !.pts = Append(@, v.frame_count),
              !.kinds = Append(@, "blank"),
              !.pc = "idle"]

\* recv up to the screenshot: the pacing sleep, then either the skip-ahead
\* path (the cached screenshot is delivered) or the capture is requested;
\* d is the time since the last clock reading
VideoRecvBegin(d) ==
    /\ video.running
    /\ video.pc = "idle"
    /\ Len(video.pts) < MaxFrames
    /\ LET current_time == wall + d
           deadline == IF video.frame_deadline = 0
                       THEN current_time + frame_interval
                       ELSE video.frame_deadline
           elapsed  == current_time - video.last_frame_time
           awake    == IF elapsed < frame_interval
                       THEN current_time + (frame_interval - elapsed)
                       ELSE current_time
           paced    == [video EXCEPT
                          !.last_frame_time = awake,
                          !.frame_deadline = current_time + frame_interval]
       IN /\ wall' = awake
          /\ video' = IF Behind(current_time, deadline, video.last_screenshot)
                      THEN CountedFrame([paced EXCEPT !.frames_skipped = @ + 1],
                                        "cached")
                      ELSE [paced EXCEPT !.pc = "shot"]
    /\ UNCHANGED <<poolVars, inputVars, audio, streamVars>>

\* what browser_pool.screenshot and the decoding can give: JPEG bytes that
\* decode, bytes that do not decode, None, an exception
ShotOutcomes == {"bytes", "undecodable", "none", "raise"}

\* recv after browser_pool.screenshot returned, d later
VideoRecvEnd(d, outcome) ==
    /\ video.pc = "shot"
    /\ wall' = wall + d
    /\ video' = CASE outcome = "bytes" ->
                       CountedFrame([video EXCEPT !.last_screenshot = TRUE],
                                    "fresh")
                  [] outcome = "undecodable" ->
                       CountedFrame([video EXCEPT !.last_screenshot = TRUE],
                                    "blank")
                  [] outcome \in {"none", "raise"} -> BlankFrame(video)
    /\ UNCHANGED <<poolVars, inputVars, audio, streamVars>>

\* stop(): later recv calls raise MediaStreamError
VideoStop ==
    /\ video.running
    /\ video.pc = "idle"
    /\ video' = [video EXCEPT !.running = FALSE]
    /\ UNCHANGED <<poolVars, inputVars, wall, audio, streamVars>>

\* ------------------------------------- BrowserAudioTrack (audio_track.py)

\* _read_audio_loop: a chunk read from parec replaces the buffer; a read at
\* the end of the stream can be shorter than a frame
AudioRead(chunk) ==
    /\ audio.running
    /\ audio.proc = "alive"
    /\ audio.chunks < MaxAudioFrames
    /\ audio' = [audio EXCEPT !.buffer = chunk, !.chunks = @ + 1]
    /\ UNCHANGED <<poolVars, inputVars, video, wall, streamVars>>

\* the capture process dies: the read loop ends, the buffer keeps its content
AudioProcessDies ==
    /\ audio.proc = "alive"
    /\ audio' = [audio EXCEPT !.proc = "dead"]
    /\ UNCHANGED <<poolVars, inputVars, video, wall, streamVars>>

\* `pts = self._frame_count * self.samples_per_frame`
AudioPts(n) == n * samples_per_frame

\* `audio_data and len(audio_data) >= self.bytes_per_frame`
HasAudio(buffer) == buffer = "full"

\* a frame count that advances for captured audio only
AudioCountCaptured(n, captured) == IF captured THEN n + 1 ELSE n

\* `self._frame_count += 1`, for captured audio and for silence alike
AudioCount(n, captured) == n + 1

\* the samples of the frame recv builds: the buffered chunk, which stays in
\* the buffer, or zeros
FrameData(a) == IF HasAudio(a.buffer) THEN a.chunks ELSE 0

\* recv: a frame of the buffered audio, or of silence when there is none
AudioRecv ==
    /\ audio.running
    /\ Len(audio.pts) < MaxAudioFrames
    /\ audio' = [audio EXCEPT
                   !.pts = Append(@, AudioPts(audio.frame_count)),
                   !.silent = Append(@, ~HasAudio(audio.buffer)),
                   !.data = Append(@, FrameData(audio)),
                   !.frame_count = AudioCount(@, HasAudio(audio.buffer))]
    /\ UNCHANGED <<poolVars, inputVars, video, wall, streamVars>>

\* stop(): the capture process is terminated, later recv calls raise
AudioStop ==
    /\ audio.running
    /\ audio' = [audio EXCEPT !.running = FALSE, !.proc = "none"]
    /\ UNCHANGED <<poolVars, inputVars, video, wall, streamVars>>

\* ------------------------ frame streaming (renderer/websocket_handler.py)

\* d[k] = v, del d[k] and d.get(k, default) of a dict kept as a function
Put(f, k, v) == [x \in DOMAIN f \cup {k} |-> IF x = k THEN v ELSE f[x]]

Del(f, k) ==
    IF DOMAIN f \subseteq {k} THEN << >> ELSE [x \in DOMAIN f \ {k} |-> f[x]]

Get(f, k, default) == IF k \in DOMAIN f THEN f[k] ELSE default

\* a bandwidth in Mbps, kept exact as a fraction
Rat(n, d) == [num |-> n, den |-> d]

Less(a, b) == a.num * b.den < b.num * a.den

\* self.fast_threshold = 5.0, self.normal_threshold = 2.0
fast_threshold == Rat(5, 1)

normal_threshold == Rat(2, 1)

\* BandwidthMonitor.__init__ at time `at`
NewMonitor(at) == [frame_times |-> <<>>, last_adjustment |-> at]

\* a record_frame that drops the newest sample when the window is full
record_frame_drop_newest(mon, at, size) ==
    LET ft == Append(mon.frame_times, [at |-> at, size |-> size])
    IN [mon EXCEPT !.frame_times = IF Len(ft) > max_history
                                   THEN SubSeq(ft, 1, Len(ft) - 1)
                                   ELSE ft]

\* record_frame: the sample is appended and the oldest one dropped when the
\* window is longer than max_history
record_frame(mon, at, size) ==
    LET ft == Append(mon.frame_times, [at |-> at, size |-> size])
    IN [mon EXCEPT !.frame_times = IF Len(ft) > max_history THEN Tail(ft)
                                   ELSE ft]

\* `sum(size for _, size in self.frame_times)`
RECURSIVE TotalBytes(_)
TotalBytes(ft) == IF ft = <<>> THEN 0 ELSE Head(ft).size + TotalBytes(Tail(ft))

\* a clamp that forgets the lower limit
ClampAbove(b) == IF Less(b, Rat(50, 1)) THEN b ELSE Rat(50, 1)

\* `max(0.5, min(50.0, bandwidth_mbps))`
Clamp(b) ==
    LET m == IF Less(b, Rat(50, 1)) THEN b ELSE Rat(50, 1)
    IN IF Less(Rat(1, 2), m) THEN m ELSE Rat(1, 2)

\* get_bandwidth_mbps: 5.0 for fewer than two samples or less than 100 ms of
\* data, otherwise total bits over the time between the oldest and the
\* newest sample, clamped
get_bandwidth_mbps(mon) ==
    LET ft == mon.frame_times IN
    IF Len(ft) < 2 THEN Rat(5, 1)
    ELSE LET time_delta == ft[Len(ft)].at - ft[1].at
         IN IF time_delta < min_time_delta THEN Rat(5, 1)
            ELSE Clamp(Rat(TotalBytes(ft), time_delta))

\* a quality rule whose tiers include their threshold
QualityInclusive(mon) ==
    LET bandwidth == get_bandwidth_mbps(mon) IN
    IF ~Less(bandwidth, fast_threshold) THEN 90
    ELSE IF ~Less(bandwidth, normal_threshold) THEN 75
    ELSE 50

get_recommended_quality(mon) ==
    LET bandwidth == get_bandwidth_mbps(mon) IN
    IF Less(fast_threshold, bandwidth) THEN 90
    ELSE IF Less(normal_threshold, bandwidth) THEN 75
    ELSE 50

get_recommended_fps(mon) ==
    LET bandwidth == get_bandwidth_mbps(mon) IN
    IF Less(fast_threshold, bandwidth) THEN 30
    ELSE IF Less(normal_threshold, bandwidth) THEN 30
    ELSE 20

\* an adjustment test that fires as soon as any time has passed
should_adjust_early(mon, at) == at - mon.last_adjustment > 0

\* should_adjust: `now - self.last_adjustment >= self.adjustment_interval`
\* (the caller stores the new last_adjustment)
should_adjust(mon, at) == at - mon.last_adjustment >= adjustment_interval

\* an adaptation test that ignores the client's mode
adapts_always(mode, mon, at) == should_adjust(mon, at)

\* `self.adaptive_mode.get(client_id, False) and monitor.should_adjust()`
adapts(mode, mon, at) == mode /\ should_adjust(mon, at)

\* the sizes of the frames sent and the times between two transmissions
FrameSizes == {2, 120}

Gaps == {1, min_time_delta, adjustment_interval}

\* the values of quality:set and fps:set requests
QualityRequests == {60, 150}

FpsRequests == {15}

Max(a, b) == IF a > b THEN a ELSE b

Min(a, b) == IF a < b THEN a ELSE b

\* the session whose frames the clients subscribe to
StreamedSession == "s1"

\* handle_subscribe: defaults, a new monitor, adaptive mode on
Subscribe(c) ==
    /\ client_quality' = Put(client_quality, c, 75)
    /\ client_fps' = Put(client_fps, c, 30)
    /\ bandwidth_monitors' = Put(bandwidth_monitors, c, NewMonitor(clock))
    /\ adaptive_mode' = Put(adaptive_mode, c, TRUE)
    /\ client_sessions' = Put(client_sessions, c, StreamedSession)
    /\ UNCHANGED <<clock, sent, adjustments, sioVars, poolVars, inputVars,
                   mediaVars>>

\* handle_unsubscribe: the client's entries are deleted
Unsubscribe(c) ==
    /\ c \in DOMAIN bandwidth_monitors
    /\ client_quality' = Del(client_quality, c)
    /\ client_fps' = Del(client_fps, c)
    /\ bandwidth_monitors' = Del(bandwidth_monitors, c)
    /\ adaptive_mode' = Del(adaptive_mode, c)
    /\ client_sessions' = Del(client_sessions, c)
    /\ UNCHANGED <<clock, sent, adjustments, sioVars, poolVars, inputVars,
                   mediaVars>>

\* record_frame_sent for a frame of `size` sent `gap` after the last one:
\* the sample is recorded and, in adaptive mode and when an adjustment is
\* due, quality and fps are set to the recommended values
RecordFrameSent(c, size, gap) ==
    /\ sent[c] < MaxSent
    /\ clock' = clock + gap
    /\ sent' = [sent EXCEPT ![c] = @ + 1]
    /\ IF c \notin DOMAIN bandwidth_monitors
       THEN UNCHANGED <<client_quality, client_fps, bandwidth_monitors,
                        adjustments>>
       ELSE LET at  == clock + gap
                mon == record_frame(bandwidth_monitors[c], at, size)
            IN IF ~adapts(Get(adaptive_mode, c, FALSE), mon, at)
               THEN /\ bandwidth_monitors' = Put(bandwidth_monitors, c, mon)
                    /\ UNCHANGED <<client_quality, client_fps, adjustments>>
               ELSE LET new_quality == get_recommended_quality(mon)
                        new_fps     == get_recommended_fps(mon)
                        changed ==
                            \/ new_quality # Get(client_quality, c, 85)
                            \/ new_fps # Get(client_fps, c, 30)
                    IN /\ bandwidth_monitors' =
                              Put(bandwidth_monitors, c,
                                  [mon EXCEPT !.last_adjustment = at])
                       /\ client_quality' =
                              IF changed THEN Put(client_quality, c, new_quality)
                              ELSE client_quality
                       /\ client_fps' =
                              IF changed THEN Put(client_fps, c, new_fps)
                              ELSE client_fps
                       /\ adjustments' =
                              Append(adjustments,
                                     [client |-> c, at |-> at,
                                      bandwidth |-> get_bandwidth_mbps(mon),
                                      quality |-> new_quality,
                                      fps |-> new_fps])
    /\ UNCHANGED <<adaptive_mode, poolVars, inputVars, mediaVars,
                   client_sessions, sioVars>>

\* BandwidthMonitor.record_frame on the monitor of client c, for a frame of
\* `size` recorded `gap` after the last reading of the clock
RecordFrame(c, size, gap) ==
    /\ c \in DOMAIN bandwidth_monitors
    /\ sent[c] < MaxRecorded
    /\ clock' = clock + gap
    /\ sent' = [sent EXCEPT ![c] = @ + 1]
    /\ bandwidth_monitors' =
          Put(bandwidth_monitors, c,
              record_frame(bandwidth_monitors[c], clock + gap, size))
    /\ UNCHANGED <<client_quality, client_fps, adaptive_mode, adjustments,
                   poolVars, inputVars, mediaVars,
                   client_sessions, sioVars>>

\* a set_quality that stores the value it is given
SetQualityRaw(c, quality) ==
    /\ client_quality' = Put(client_quality, c, quality)
    /\ adaptive_mode' = Put(adaptive_mode, c, FALSE)
    /\ UNCHANGED <<client_fps, bandwidth_monitors, clock, sent, adjustments,
                   poolVars, inputVars, mediaVars,
                   client_sessions, sioVars>>

\* set_quality: the value is clamped to 1..100 and adaptive mode goes off
SetQuality(c, quality) ==
    /\ client_quality' = Put(client_quality, c, Max(1, Min(100, quality)))
    /\ adaptive_mode' = Put(adaptive_mode, c, FALSE)
    /\ UNCHANGED <<client_fps, bandwidth_monitors, clock, sent, adjustments,
                   poolVars, inputVars, mediaVars,
                   client_sessions, sioVars>>

\* set_fps: the value is clamped to 1..60 and adaptive mode goes off
SetFps(c, fps) ==
    /\ client_fps' = Put(client_fps, c, Max(1, Min(60, fps)))
    /\ adaptive_mode' = Put(adaptive_mode, c, FALSE)
    /\ UNCHANGED <<client_quality, bandwidth_monitors, clock, sent,
                   adjustments, poolVars, inputVars, mediaVars,
                   client_sessions, sioVars>>

\* toggle_adaptive_mode
ToggleAdaptive(c, enabled) ==
    /\ adaptive_mode' = Put(adaptive_mode, c, enabled)
    /\ UNCHANGED <<client_quality, client_fps, bandwidth_monitors, clock, sent,
                   adjustments, poolVars, inputVars, mediaVars,
                   client_sessions, sioVars>>

\* ------------------- Socket.IO events (renderer/app.py, audio_handler.py)

\* the clients subscribed to the audio of session sid
AudioClientsOf(d, sid) == {c \in DOMAIN d : d[c] = sid}

\* 'connect': the client gets its sid, nothing else is recorded
SioConnect(c) ==
    /\ c \notin connected
    /\ connected' = connected \cup {c}
    /\ UNCHANGED <<client_quality, client_fps, adaptive_mode,
                   bandwidth_monitors, clock, sent, adjustments,
                   client_sessions, client_audio_sessions, audio_captures,
                   poolVars, inputVars, mediaVars>>

\* 'subscribe' of a connected client, for a session that exists
SioSubscribe(c) ==
    /\ c \in connected
    /\ Subscribe(c)

\* 'quality:set' of a connected client: only 1..100 reaches set_quality
SioSetQuality(c, quality) ==
    /\ c \in connected
    /\ quality \in 1..100
    /\ SetQuality(c, quality)

\* 'audio:subscribe' -> AudioStreamer.subscribe_client: a capture is started
\* for a session that has none, and the client is bound to the session
AudioSubscribe(c, sid) ==
    /\ c \in connected
    /\ audio_captures' = audio_captures \cup {sid}
    /\ client_audio_sessions' = Put(client_audio_sessions, c, sid)
    /\ UNCHANGED <<client_quality, client_fps, adaptive_mode,
                   bandwidth_monitors, clock, sent, adjustments,
                   client_sessions, connected, poolVars, inputVars, mediaVars>>

\* 'audio:unsubscribe' -> AudioStreamer.unsubscribe_client: the client's
\* entry is popped and the capture of its session is stopped and deleted
\* when no other client listens to it
AudioUnsubscribe(c) ==
    /\ c \in connected
    /\ client_audio_sessions' = Del(client_audio_sessions, c)
    /\ audio_captures' =
          IF /\ c \in DOMAIN client_audio_sessions
             /\ AudioClientsOf(client_audio_sessions', client_audio_sessions[c])
                   = {}
          THEN audio_captures \ {client_audio_sessions[c]}
          ELSE audio_captures
    /\ UNCHANGED <<client_quality, client_fps, adaptive_mode,
                   bandwidth_monitors, clock, sent, adjustments,
                   client_sessions, connected, poolVars, inputVars, mediaVars>>

\* 'disconnect': ws_handler.handle_unsubscribe(request.sid), nothing else
SioDisconnect(c) ==
    /\ c \in connected
    /\ connected' = connected \ {c}
    /\ client_quality' = Del(client_quality, c)
    /\ client_fps' = Del(client_fps, c)
    /\ client_sessions' = Del(client_sessions, c)
    /\ bandwidth_monitors' = Del(bandwidth_monitors, c)
    /\ adaptive_mode' = Del(adaptive_mode, c)
    /\ UNCHANGED <<clock, sent, adjustments, client_audio_sessions,
                   audio_captures, poolVars, inputVars, mediaVars>>

\* ----------------------------------------------------------- specifications

\* The session ids requests name, per scenario.
PoolIds == {"s1", "s2", "s3"}
PeerIds == {"s1"}

\* The pool under two concurrent control-plane requests (create, close), the
\* reaper and the clock.
Next ==
    \/ \E t \in HttpTasks, sid \in PoolIds : HttpCreate(t, sid, "None")
    \/ \E t \in HttpTasks, sid \in PoolIds : HttpClose(t, sid)
    \/ \E t \in HttpTasks : HttpRespond(t)
    \/ \E t \in Tasks : LockGranted(t)
    \/ \E t \in Tasks, ok \in BOOLEAN : CreateRpcReturn(t, ok)
    \/ \E t \in Tasks, ok \in BOOLEAN : CloseRpcReturn(t, ok)
    \/ ReaperWake
    \/ Tick

Spec == Init /\ [][Next]_vars

\* The control plane alone: two concurrent requests (create with or without
\* a custom viewport, close), without the reaper.
CreateNext ==
    \/ \E t \in HttpTasks, sid \in PoolIds, dims \in ReqDims :
           HttpCreate(t, sid, dims)
    \/ \E t \in HttpTasks, sid \in PoolIds : HttpClose(t, sid)
    \/ \E t \in HttpTasks : HttpRespond(t)
    \/ \E t \in Tasks : LockGranted(t)
    \/ \E t \in Tasks, ok \in BOOLEAN : CreateRpcReturn(t, ok)
    \/ \E t \in Tasks, ok \in BOOLEAN : CloseRpcReturn(t, ok)

CreateSpec == Init /\ [][CreateNext]_vars

\* One control-plane request at a time, two signaling connections, the
\* reaper and the clock, on one session id.
PeerNext ==
    \/ \E sid \in PeerIds : HttpCreate("h1", sid, "None")
    \/ \E sid \in PeerIds : HttpClose("h1", sid)
    \/ HttpRespond("h1")
    \/ \E t \in Tasks : LockGranted(t)
    \/ \E t \in Tasks, ok \in BOOLEAN : CreateRpcReturn(t, ok)
    \/ \E t \in Tasks, ok \in BOOLEAN : CloseRpcReturn(t, ok)
    \/ \E t \in Tasks : PeerCloseReturn(t)
    \/ \E t \in WsTasks : WsConnect(t)
    \/ \E t \in WsTasks, sid \in PeerIds : WsJoin(t, sid)
    \/ \E t \in WsTasks, ok \in BOOLEAN : OfferReturn(t, ok)
    \/ \E t \in WsTasks : WsDisconnect(t)
    \/ ReaperWake
    \/ Tick

PeerSpec == Init /\ [][PeerNext]_vars

\* The reaper against one control-plane client (create, load) and the clock.
ReapNext ==
    \/ \E sid \in PeerIds : HttpCreate("h1", sid, "None")
    \/ \E sid \in PeerIds : HttpLoad("h1", sid)
    \/ \E ok \in BOOLEAN : NavReturn("h1", ok)
    \/ HttpRespond("h1")
    \/ \E t \in Tasks : LockGranted(t)
    \/ \E t \in Tasks, ok \in BOOLEAN : CreateRpcReturn(t, ok)
    \/ \E t \in Tasks, ok \in BOOLEAN : CloseRpcReturn(t, ok)
    \/ ReaperWake
    \/ Tick

\* The event loop runs every task that can run: a task handed a lock goes
\* on, an RPC returns (or raises, or times out), the reaper's sleep ends, a
\* ready response is sent, and time passes.
ReapFairness ==
    /\ WF_vars(ReaperWake)
    /\ WF_vars(Tick)
    /\ WF_vars(HttpRespond("h1"))
    /\ WF_vars(\E ok \in BOOLEAN : NavReturn("h1", ok))
    /\ \A t \in {"h1", ReaperTask} :
          /\ WF_vars(LockGranted(t))
          /\ WF_vars(\E ok \in BOOLEAN : CreateRpcReturn(t, ok))
          /\ WF_vars(\E ok \in BOOLEAN : CloseRpcReturn(t, ok))

ReapFairSpec == Init /\ [][ReapNext]_vars /\ ReapFairness

\* Signaling alone: one control-plane client, two signaling connections and
\* the transport failures of their peers, on one session id.
JoinNext ==
    \/ \E sid \in PeerIds : HttpCreate("h1", sid, "None")
    \/ \E sid \in PeerIds : HttpClose("h1", sid)
    \/ HttpRespond("h1")
    \/ \E t \in Tasks : LockGranted(t)
    \/ \E t \in Tasks, ok \in BOOLEAN : CreateRpcReturn(t, ok)
    \/ \E t \in Tasks, ok \in BOOLEAN : CloseRpcReturn(t, ok)
    \/ \E t \in Tasks : PeerCloseReturn(t)
    \/ \E t \in WsTasks : WsConnect(t)
    \/ \E t \in WsTasks, sid \in PeerIds : WsJoin(t, sid)
    \/ \E t \in WsTasks, ok \in BOOLEAN : OfferReturn(t, ok)
    \/ \E t \in WsTasks : WsDisconnect(t)
    \/ \E p \in WsTasks : PeerFailed(p)

JoinSpec == Init /\ [][JoinNext]_vars

\* One live session with two peers joined to it: the state after a create
\* and two joins.
LiveInit ==
    /\ pages = {"s1"}
    /\ viewport = [x \in {"s1"} |-> DefaultViewport]
    /\ session_timestamps = <<[id |-> "s1", at |-> 0]>>
    /\ pool_lock = FreeLock
    /\ peers = <<[id |-> "w1", session_id |-> "s1"],
                 [id |-> "w2", session_id |-> "s1"]>>
    /\ peer_pc = [p \in WsTasks |-> "new"]
    /\ mgr_lock = FreeLock
    /\ now = 0
    /\ task = [t \in Tasks |->
                 IF t \in WsTasks
                 THEN [IdleTask(t) EXCEPT !.pc = "ws_recv", !.sid = "s1",
                                          !.res = "offer"]
                 ELSE IdleTask(t)]

\* The driver of one session under the input of two peers, the control
\* plane's load and the video track's captures.
InputNext ==
    \/ \E p \in WsTasks, kind \in InputKinds : DcReceive(p, kind)
    \/ \E i \in 1..(2 * MaxMessages) : HandlerStart(i)
    \/ \E i \in 1..(2 * MaxMessages), ok \in BOOLEAN : HandlerEnd(i, ok)
    \/ HttpLoad("h1", "s1")
    \/ \E ok \in BOOLEAN : NavReturn("h1", ok)
    \/ HttpRespond("h1")
    \/ VideoRecvBegin(0)
    \/ \E outcome \in ShotOutcomes : VideoRecvEnd(0, outcome)

InputStart == LiveInit /\ InputInit /\ MediaInit /\ StreamInit

InputSpec == InputStart /\ [][InputNext]_vars

\* the session ids of the load scenario
LoadIds == {"s1", "s2"}

\* The control plane under two concurrent requests: create, close and load
\* with every kind of URL, and the clock.
LoadNext ==
    \/ \E t \in HttpTasks, sid \in LoadIds : HttpCreate(t, sid, "None")
    \/ \E t \in HttpTasks, sid \in LoadIds : HttpClose(t, sid)
    \/ \E t \in HttpTasks, sid \in LoadIds, url \in Urls :
           HttpLoadUrl(t, sid, url)
    \/ \E t \in HttpTasks, ok \in BOOLEAN : NavReturn(t, ok)
    \/ \E t \in HttpTasks : NavTimeout(t)
    \/ \E t \in HttpTasks : HttpRespond(t)
    \/ \E t \in Tasks : LockGranted(t)
    \/ \E t \in Tasks, ok \in BOOLEAN : CreateRpcReturn(t, ok)
    \/ \E t \in Tasks, ok \in BOOLEAN : CloseRpcReturn(t, ok)
    \/ Tick

LoadSpec == Init /\ [][LoadNext]_vars

\* The data channel of one peer under every kind of message, next to the
\* clicks of another peer.
ChannelNext ==
    \/ \E kind \in ChannelKinds : DcReceive("w1", kind)
    \/ DcReceive("w2", "click")
    \/ \E i \in 1..(2 * MaxMessages) : HandlerStart(i)
    \/ \E i \in 1..(2 * MaxMessages), ok \in BOOLEAN : HandlerEnd(i, ok)

ChannelSpec == InputStart /\ [][ChannelNext]_vars

\* One video track and the clock.
VideoNext ==
    \/ \E d \in 0..MaxGap : VideoRecvBegin(d)
    \/ \E d \in 0..MaxRpc, outcome \in ShotOutcomes : VideoRecvEnd(d, outcome)
    \/ VideoStop

VideoSpec == Init /\ [][VideoNext]_vars

\* One audio track, its reader thread and its capture process.
AudioInit ==
    /\ video = NewVideoTrack
    /\ wall = Epoch
    /\ audio \in {NewAudioTrack(proc) : proc \in {"none", "alive"}}

AudioNext ==
    \/ \E chunk \in {"full", "short"} : AudioRead(chunk)
    \/ AudioProcessDies
    \/ AudioRecv
    \/ AudioStop

AudioStart == PoolInit /\ InputInit /\ AudioInit /\ StreamInit

AudioSpec == AudioStart /\ [][AudioNext]_vars

\* the clients of the streaming scenario
StreamClients == {"c1"}

\* The frame streaming handler and its clients.
StreamNext ==
    \/ \E c \in StreamClients : Subscribe(c)
    \/ \E c \in StreamClients : Unsubscribe(c)
    \/ \E c \in StreamClients, size \in FrameSizes, gap \in Gaps :
           RecordFrameSent(c, size, gap)
    \/ \E c \in StreamClients, quality \in QualityRequests :
           SetQuality(c, quality)
    \/ \E c \in StreamClients, fps \in FpsRequests : SetFps(c, fps)
    \/ \E c \in StreamClients, enabled \in BOOLEAN :
           ToggleAdaptive(c, enabled)

StreamSpec == Init /\ [][StreamNext]_vars

\* One live session that is only streamed: its video track captures frames,
\* no input arrives, the reaper runs and time passes.
StreamedNext ==
    \/ VideoRecvBegin(0)
    \/ \E outcome \in ShotOutcomes : VideoRecvEnd(0, outcome)
    \/ \E ok \in BOOLEAN : CloseRpcReturn(ReaperTask, ok)
    \/ ReaperWake
    \/ Tick

\* The event loop runs the reaper whenever it can run, its driver call
\* returns (or raises), and time passes.
StreamedFairness ==
    /\ WF_vars(ReaperWake)
    /\ WF_vars(Tick)
    /\ WF_vars(\E ok \in BOOLEAN : CloseRpcReturn(ReaperTask, ok))

StreamedFairSpec == InputStart /\ [][StreamedNext]_vars /\ StreamedFairness

\* the values given to set_quality and set_fps in the range scenario: below,
\* inside and above the range
AnyQuality == {0, 60, 150}
AnyFps == {0, 15, 100}

\* The streaming handler under set calls with any value, adaptive toggles,
\* subscriptions and frame transmissions.
RangeNext ==
    \/ \E c \in StreamClients : Subscribe(c)
    \/ \E c \in StreamClients : Unsubscribe(c)
    \/ \E c \in StreamClients, size \in FrameSizes,
          gap \in {min_time_delta, adjustment_interval} :
           RecordFrameSent(c, size, gap)
    \/ \E c \in StreamClients, quality \in AnyQuality : SetQuality(c, quality)
    \/ \E c \in StreamClients, fps \in AnyFps : SetFps(c, fps)
    \/ \E c \in StreamClients, enabled \in BOOLEAN :
           ToggleAdaptive(c, enabled)

RangeSpec == Init /\ [][RangeNext]_vars

\* The state after the subscription of client c1 at time 0.
SubscribedInit ==
    /\ client_quality = Put(<< >>, "c1", 75)
    /\ client_fps = Put(<< >>, "c1", 30)
    /\ adaptive_mode = Put(<< >>, "c1", TRUE)
    /\ bandwidth_monitors = Put(<< >>, "c1", NewMonitor(0))
    /\ clock = 0
    /\ sent = [c \in ClientIds |-> 0]
    /\ adjustments = <<>>
    /\ client_sessions = Put(<< >>, "c1", StreamedSession)
    /\ connected = {"c1"}
    /\ client_audio_sessions = << >>
    /\ audio_captures = {}

\* One bandwidth monitor under record_frame.
WindowNext ==
    \E size \in FrameSizes, gap \in {1, min_time_delta} :
        RecordFrame("c1", size, gap)

WindowStart == PoolInit /\ InputInit /\ MediaInit /\ SubscribedInit

WindowSpec == WindowStart /\ [][WindowNext]_vars

\* The sessions whose audio a client can ask for.
AudioIds == {"s1", "s2"}

\* Two Socket.IO clients that connect, subscribe to frames and to audio,
\* set a quality and disconnect.
SioNext ==
    \/ \E c \in ClientIds : SioConnect(c)
    \/ \E c \in ClientIds : SioSubscribe(c)
    \/ \E c \in ClientIds : SioSetQuality(c, 60)
    \/ \E c \in ClientIds, sid \in AudioIds : AudioSubscribe(c, sid)
    \/ \E c \in ClientIds : AudioUnsubscribe(c)
    \/ \E c \in ClientIds : SioDisconnect(c)

SioSpec == Init /\ [][SioNext]_vars

\* ------------------------------------------------------------------ claims

\* the step in which task t's create request ends (its response is ready)
CreateEnds(t) ==
    /\ task[t].pc # "done"
    /\ task'[t].pc = "done"
    /\ task'[t].op = "create"

\* C1: after any interleaving of create, close and reaper runs (concurrent
\* creates included), the pool never holds more than browser_max_sessions
\* sessions.
C1_SessionsWithinMax == Cardinality(pages) <= browser_max_sessions

\* C1 witness: the pool is full, one create has been refused for it and
\* another request is under way.
C1_Witness ==
    /\ Cardinality(pages) = browser_max_sessions
    /\ \E t, u \in HttpTasks :
          /\ task[t].pc = "done" /\ task[t].res = "AtCapacity"
          /\ task[u].pc \in {"create_wait", "create_rpc", "cs_rpc", "cs_wait"}

\* C9: a create that finds the pool at its maximum, for an id that is not in
\* the pool, fails with AtCapacity and leaves the set of sessions unchanged.
C9_AtCapacityRefused ==
    [][\A t \in HttpTasks :
          (CreateEnds(t) /\ Cardinality(pages) >= browser_max_sessions
                         /\ task'[t].sid \notin pages)
          => (task'[t].res = "AtCapacity" /\ pages' = pages
                                          /\ viewport' = viewport)]_vars

\* C9 witness: a create for a new id has been refused by a full pool.
C9_Witness ==
    \E t \in HttpTasks :
        /\ task[t].pc = "done" /\ task[t].op = "create"
        /\ task[t].res = "AtCapacity"
        /\ task[t].sid \notin pages
        /\ Cardinality(pages) = browser_max_sessions

\* C10 (as claimed): a create for an id that is already live ends with the
\* Exists outcome, not with a success, and leaves the existing session and
\* its viewport unchanged.
C10_ExistsOutcome ==
    [][\A t \in HttpTasks :
          (CreateEnds(t) /\ task'[t].sid \in pages)
          => (task'[t].res = "Exists" /\ pages' = pages
                                      /\ viewport' = viewport)]_vars


\* the step in which task t's close request (DELETE) ends
CloseEnds(t) ==
    /\ task[t].pc # "done"
    /\ task'[t].pc = "done"
    /\ task'[t].op = "close"

\* C2 (as claimed): when an explicit close of session s through the control
\* plane ends, no peer bound to s is left in the peer registry and a lookup
\* of s in the pool finds nothing, also when a signaling join for s ran
\* concurrently.
C2_CloseRemovesSessionAndPeers ==
    [][\A t \in HttpTasks :
          CloseEnds(t)
          => (/\ task'[t].sid \notin pages'
              /\ PeersOf(peers', task'[t].sid) = <<>>)]_vars

\* C3 (as claimed): every peer in the peer registry is bound to a session
\* that is in the pool.
C3_PeersBoundToLiveSessions ==
    \A i \in 1..Len(peers) : peers[i].session_id \in pages

\* session sid is in the pool and has had no activity for longer than the
\* idle timeout
Idle(sid) ==
    /\ sid \in pages
    /\ sid \in Keys(session_timestamps)
    /\ IsStale(Lookup(session_timestamps, sid), now)

\* C8 (as claimed): a session without activity for longer than the idle
\* timeout is eventually removed from the pool by the reaper (or is active
\* again), given that every task is scheduled fairly.
C8_IdleSessionReaped ==
    \A sid \in PeerIds : [](Idle(sid) => <>(~Idle(sid)))


\* C4 (as claimed): input messages of one peer are applied in the order
\* received: while the driver call of a message has not completed, no driver
\* call of a later message of the same peer has started.
C4_InputAppliedInOrder ==
    \A i, j \in 1..Len(handlers) :
        (i < j /\ handlers[i].peer = handlers[j].peer)
        => handlers[j].pc # "rpc"

\* C5 (as claimed): at most one driver command of a session is in flight at
\* any time (control plane, input handlers of any peer, frame source).
C5_OneDriverCommandInFlight == Cardinality(InFlight) <= 1

\* C6 (as claimed): the pts of the frames a video track returns are strictly
\* increasing, on every path of recv.
C6_VideoPtsIncrease ==
    \A i, j \in 1..Len(video.pts) : i < j => video.pts[i] < video.pts[j]

\* C7: the first audio frame has pts 0 and the pts of successive frames
\* differ by exactly samples_per_frame, for captured audio and for silence.
C7_AudioPtsStep ==
    /\ Len(audio.pts) > 0 => audio.pts[1] = 0
    /\ \A i \in 1..(Len(audio.pts) - 1) :
          audio.pts[i + 1] - audio.pts[i] = samples_per_frame

\* C7 witness: three frames were returned, silence and captured audio among
\* them.
C7_Witness ==
    /\ Len(audio.pts) >= 3
    /\ \E i, j \in 1..Len(audio.silent) : audio.silent[i] /\ ~audio.silent[j]


\* C11 (as claimed): a close of an id that is not in the pool is answered
\* with NotFound and changes nothing; so the second of two closes of a live
\* session is answered with NotFound.
C11_CloseUnknownNotFound ==
    [][\A t \in HttpTasks :
          (CloseEnds(t) /\ task[t].pc = "idle" /\ task'[t].sid \notin pages)
          => (task'[t].res = "NotFound" /\ pages' = pages
                                        /\ peers' = peers)]_vars

\* the handler of connection t waits for a lock that it holds itself
SelfBlocked(t) ==
    \/ task[t].pc \in {"cp_wait", "mk_wait"} /\ mgr_lock.holder = t
    \/ task[t].pc \in {"cs_wait", "create_wait"} /\ pool_lock.holder = t

\* C12 (as claimed): a join naming a session that is not in the pool is
\* answered with an error, creates no peer and leaves the connection
\* receiving; the next join on that connection, naming a session of the
\* pool, goes on to its offer: its handler does not end up blocked on itself.
C12_JoinUnknownKeepsChannel ==
    [][\A t \in WsTasks, sid \in PeerIds :
          /\ (WsJoin(t, sid) /\ sid \notin pages)
             => (/\ task'[t].res = "error"
                 /\ task'[t].pc = "ws_recv"
                 /\ peers' = peers)
          /\ (WsJoin(t, sid) /\ sid \in pages /\ task[t].res = "error")
             => ~SelfBlocked(t)']_vars

\* C13 (as claimed): when the handler of a signaling connection ends, the
\* connection's peer is not in the registry and the session it was bound to
\* is not in the pool; a connection without a peer closes no session.
C13_DisconnectTearsDown ==
    [][\A t \in WsTasks :
          (task[t].pc # "ws_closed" /\ task'[t].pc = "ws_closed")
          => (/\ t \notin Keys(peers')
              /\ task[t].cs # "none" => task[t].cs \notin pages'
              /\ task[t].pc = "ws_recv" => pages' = pages)]_vars

\* C14 (as claimed): when the connection state of a peer becomes failed, the
\* peer is removed from the registry and its session from the pool.
C14_FailedPeerRemoved ==
    [][\A p \in WsTasks :
          (peer_pc[p] # "failed" /\ peer_pc'[p] = "failed")
          => (/\ p \notin Keys(peers')
              /\ Lookup(peers, p).session_id \notin pages')]_vars

\* C15 (as claimed): no task holds the pool lock while its driver call is in
\* flight, nor the registry lock while its peer close is in flight.
C15_NoLockAcrossRpc ==
    \A t \in Tasks :
        /\ task[t].pc \in {"create_rpc", "cs_rpc"} => pool_lock.holder # t
        /\ task[t].pc = "cp_rpc" => mgr_lock.holder # t

\* C16 (as claimed): every frame recv returns after the capture process died
\* is silence.
C16_SilenceAfterCaptureDeath ==
    [][(audio.proc = "dead" /\ Len(audio'.pts) > Len(audio.pts))
          => audio'.silent[Len(audio'.silent)]]_vars


\* C17: every adaptive adjustment maps the estimated bandwidth b to quality
\* 90 and fps 30 if b > 5.0, to 75 and 30 if 2.0 < b <= 5.0, and to 50 and
\* 20 if b <= 2.0; so of two adjustments the one with the higher estimate has
\* neither the lower quality nor the lower fps.
C17_AdaptiveRule ==
    /\ \A i \in 1..Len(adjustments) :
          LET e == adjustments[i] IN
          /\ Less(Rat(5, 1), e.bandwidth) => (e.quality = 90 /\ e.fps = 30)
          /\ (Less(Rat(2, 1), e.bandwidth) /\ ~Less(Rat(5, 1), e.bandwidth))
                => (e.quality = 75 /\ e.fps = 30)
          /\ ~Less(Rat(2, 1), e.bandwidth) => (e.quality = 50 /\ e.fps = 20)
    /\ \A i, j \in 1..Len(adjustments) :
          ~Less(adjustments[j].bandwidth, adjustments[i].bandwidth)
          => (/\ adjustments[i].quality <= adjustments[j].quality
              /\ adjustments[i].fps <= adjustments[j].fps)

\* C17 witness: two adjustments were made, one at a lower estimate and with
\* a lower quality than the other, and one at exactly 5.0 Mbps.
C17_Witness ==
    /\ \E i, j \in 1..Len(adjustments) :
          /\ Less(adjustments[i].bandwidth, adjustments[j].bandwidth)
          /\ adjustments[i].quality < adjustments[j].quality
    /\ \E i \in 1..Len(adjustments) :
          /\ ~Less(adjustments[i].bandwidth, Rat(5, 1))
          /\ ~Less(Rat(5, 1), adjustments[i].bandwidth)

\* C18: for every sample window the estimate lies within [0.5, 50] Mbps: it
\* is the default 5.0 unless the window has two samples spanning 100 ms, and
\* then it is total bits over the span, clamped to the range.
C18_BandwidthWithinRange ==
    \A c \in DOMAIN bandwidth_monitors :
        LET ft    == bandwidth_monitors[c].frame_times
            b     == get_bandwidth_mbps(bandwidth_monitors[c])
            spans == Len(ft) >= 2 /\ ft[Len(ft)].at - ft[1].at >= 2
            raw   == Rat(TotalBytes(ft), ft[Len(ft)].at - ft[1].at)
        IN /\ ~Less(b, Rat(1, 2))
           /\ ~Less(Rat(50, 1), b)
           /\ ~spans => b = Rat(5, 1)
           /\ spans =>
                 /\ Less(raw, Rat(1, 2)) => b = Rat(1, 2)
                 /\ Less(Rat(50, 1), raw) => b = Rat(50, 1)
                 /\ (~Less(raw, Rat(1, 2)) /\ ~Less(Rat(50, 1), raw)) => b = raw

\* C18 witness: a window of three samples spanning more than 100 ms whose
\* raw rate is below 0.5 Mbps.
C18_Witness ==
    \E c \in DOMAIN bandwidth_monitors :
        LET ft == bandwidth_monitors[c].frame_times IN
        /\ Len(ft) = max_history
        /\ ft[Len(ft)].at - ft[1].at >= 2
        /\ Less(Rat(TotalBytes(ft), ft[Len(ft)].at - ft[1].at), Rat(1, 2))

\* C19: a manual quality or fps setting turns the client's adaptive mode
\* off, and while it is off no frame transmission changes the client's
\* quality or fps, or turns the mode on again.
C19_ManualOverridesAdaptive ==
    [][\A c \in StreamClients :
          /\ ((\E q \in QualityRequests : SetQuality(c, q))
                \/ (\E f \in FpsRequests : SetFps(c, f)))
             => adaptive_mode'[c] = FALSE
          /\ (sent'[c] # sent[c] /\ ~Get(adaptive_mode, c, FALSE))
             => (/\ client_quality' = client_quality
                 /\ client_fps' = client_fps
                 /\ adaptive_mode' = adaptive_mode)]_vars

\* C19 witness: a client with a manual fps, adaptive mode off, whose latest
\* frame was sent now, an adjustment interval or more after the last
\* adjustment.
C19_Witness ==
    \E c \in DOMAIN bandwidth_monitors :
        LET mon == bandwidth_monitors[c] IN
        /\ adaptive_mode[c] = FALSE
        /\ client_fps[c] = 15
        /\ Len(mon.frame_times) >= 2
        /\ mon.frame_times[Len(mon.frame_times)].at = clock
        /\ clock - mon.last_adjustment >= adjustment_interval

\* C20: in adaptive mode, a frame transmission at which the adjustment
\* interval has elapsed since the last adjustment and the estimate is at or
\* below 2.0 Mbps sets the client's quality to 50 and its fps to 20; and two
\* adjustments of one client are at least one adjustment interval apart.
C20_AdaptiveStepDown ==
    [][\A c \in StreamClients :
          /\ (/\ sent'[c] # sent[c]
              /\ c \in DOMAIN bandwidth_monitors
              /\ Get(adaptive_mode, c, FALSE)
              /\ clock' - bandwidth_monitors[c].last_adjustment
                    >= adjustment_interval
              /\ ~Less(Rat(2, 1), get_bandwidth_mbps(bandwidth_monitors'[c])))
             => (client_quality'[c] = 50 /\ client_fps'[c] = 20)
          /\ Len(adjustments') > Len(adjustments)
             => \A i \in 1..Len(adjustments) :
                   adjustments[i].client = adjustments'[Len(adjustments')].client
                   => adjustments'[Len(adjustments')].at - adjustments[i].at
                         >= adjustment_interval]_vars

\* C20 witness: a client was adjusted twice, the second time down to quality
\* 50 and fps 20 from a higher setting.
C20_Witness ==
    \E c \in DOMAIN bandwidth_monitors :
        /\ Len(adjustments) >= 2
        /\ adjustments[Len(adjustments)].client = c
        /\ adjustments[Len(adjustments) - 1].client = c
        /\ adjustments[Len(adjustments) - 1].quality > 50
        /\ adjustments[Len(adjustments)].quality = 50
        /\ client_quality[c] = 50
        /\ client_fps[c] = 20


\* the step is the end of a handler of peer p with an error logged: the
\* message was not valid JSON, or its handling raised
Dropped(p) == dc_errors'[p] = dc_errors[p] + 1

\* handlers' is handlers without its i-th task, the others as they were
OnlyEnded(i) ==
    /\ Len(handlers') = Len(handlers) - 1
    /\ \A j \in 1..Len(handlers') :
          handlers'[j] = IF j < i THEN handlers[j] ELSE handlers[j + 1]

\* C21: a data-channel message that is not valid JSON, or whose handling
\* raises, is dropped and changes nothing else: the peer stays registered
\* with its connection as it was, the messages received and the other
\* handlers are untouched, and a valid message whose handler starts on a
\* channel that has dropped messages before still gets its driver call.
C21_BadMessageDropped ==
    [][/\ \A p \in WsTasks :
             Dropped(p)
             => (/\ peers' = peers
                 /\ peer_pc' = peer_pc
                 /\ pages' = pages
                 /\ dc_count' = dc_count
                 /\ \E i \in 1..Len(handlers) :
                       handlers[i].peer = p /\ OnlyEnded(i))
       /\ \A i \in 1..Len(handlers) :
             (/\ HandlerStart(i)
              /\ dc_errors[handlers[i].peer] > 0
              /\ handlers[i].kind # "bad")
             => (/\ Len(handlers') = Len(handlers)
                 /\ handlers'[i].pc = "rpc")]_vars

\* C21 witness: the first message of w1 was dropped with an error, and the
\* valid click that followed it is at its driver call, the peer registered.
C21_Witness ==
    /\ dc_errors["w1"] = 1
    /\ dc_count["w1"] = 2
    /\ "w1" \in Keys(peers)
    /\ peer_pc["w1"] = "new"
    /\ \E i \in 1..Len(handlers) :
          handlers[i] = [peer |-> "w1", n |-> 2, kind |-> "click",
                         pc |-> "rpc"]
    /\ \A i \in 1..Len(handlers) : handlers[i].n # 1


\* the driver call the handler h is waiting for
DriverCall(h) == DriverCallOf(Parsed(h.kind))

\* C22 (as claimed): a key event whose name is outside the canonical set is
\* never dispatched to the browser's keyboard: no handler waits for a
\* page.keyboard.press of such a key.
C22_UnknownKeyNotDispatched ==
    \A i \in 1..Len(handlers) :
        (handlers[i].pc = "rpc"
         /\ DriverCall(handlers[i]).method = "keyboard.press")
        => DriverCall(handlers[i]).args[1] \in key_map


\* the click message data has both coordinates, inside the viewport size
ValidClick(data, size) ==
    /\ {"x", "y"} \subseteq DOMAIN data
    /\ data.x \in 0..(size.width - 1)
    /\ data.y \in 0..(size.height - 1)

\* C30 (as claimed): a click reaches the driver only if it carries x and y
\* inside the viewport of the peer's session, and then with exactly the
\* (x, y) it carried: every handler waiting for page.mouse.click belongs to
\* such a message and passes its coordinates unchanged.
C30_InvalidClickNotDispatched ==
    \A i \in 1..Len(handlers) :
        (handlers[i].pc = "rpc"
         /\ DriverCall(handlers[i]).method = "mouse.click")
        => LET data == Parsed(handlers[i].kind)
               sid  == Lookup(peers, handlers[i].peer).session_id
           IN /\ ValidClick(data, ViewportSize(viewport[sid]))
              /\ DriverCall(handlers[i]).args = <<data.x, data.y>>


C25_TimeoutIsSuccess ==
    [][\A t \in HttpTasks :
          NavTimeout(t)
          => (task'[t].res = "ok" /\ task[t].sid \in pages')]_vars

\* C26 (as claimed): a load on a live session with a URL without a scheme
\* navigates to the URL with https:// put in front, and a load with a URL of
\* a scheme other than http and https is refused without navigating.
C26_SchemeDefaultsToHttps ==
    [][\A t \in HttpTasks, sid \in LoadIds, url \in Urls :
          (HttpLoadUrl(t, sid, url) /\ sid \in pages)
          => (/\ url.scheme = ""
                 => (/\ task'[t].pc = "nav_rpc"
                     /\ task'[t].url.scheme = "https")
              /\ url.scheme \notin {"", "http", "https"}
                 => (/\ task'[t].pc = "done"
                     /\ task'[t].res = "Unprocessable"))]_vars


\* C24 (as claimed): the listing is exactly the live sessions: an id is in
\* the listing when its create returns success, is not in the listing when
\* its close returns, and the reported active count is the number of listed
\* ids.
C24_ListingIsLiveSessions ==
    [][/\ \A t \in HttpTasks :
             /\ (CreateEnds(t) /\ task'[t].res = "Session")
                => task'[t].sid \in get_stats'.sessions
             /\ CloseEnds(t) => task'[t].sid \notin get_stats'.sessions
       /\ get_stats'.active_sessions = Cardinality(get_stats'.sessions)]_vars

\* C27 (as claimed): when close_session's driver teardown (page.close,
\* context.close) is over, whether it returned or raised, the session is no
\* longer in the pool.
C27_CloseAlwaysRemoves ==
    [][\A t \in Tasks, ok \in BOOLEAN :
          CloseRpcReturn(t, ok) => task[t].cs \notin pages']_vars

\* C28 (as claimed): create_peer terminates also for a peer id that is
\* already registered: no signaling handler ever waits for the registry lock
\* while holding it.
C28_CreatePeerTerminates ==
    \A t \in WsTasks : ~(task[t].pc \in {"cp_wait", "mk_wait"}
                         /\ mgr_lock.holder = t)


K == MaxMessages - 1

\* the driver calls of peer p's messages that are under way
Dispatched(p) ==
    {i \in 1..Len(handlers) : handlers[i].peer = p /\ handlers[i].pc = "rpc"}

\* C31 (as claimed): of the input events a peer sends within one second (no
\* time passes in the channel scenario), at most K are dispatched to the
\* driver; the events beyond the limit are dropped.
C31_BurstLimited ==
    \A p \in WsTasks : Cardinality(Dispatched(p)) <= K


\* C32: the bandwidth window never holds more than max_history samples, and
\* every record_frame leaves in it exactly the most recent
\* min(n, max_history) samples recorded, in recording order: the new sample
\* last, before it the samples that were newest before, in their order.
C32_WindowIsMostRecent ==
    [][\A c \in StreamClients :
          (c \in DOMAIN bandwidth_monitors /\ sent'[c] = sent[c] + 1)
          => LET old  == bandwidth_monitors[c].frame_times
                 new  == bandwidth_monitors'[c].frame_times
                 keep == Min(Len(old) + 1, max_history)
             IN /\ Len(new) = keep
                /\ new[keep].at = clock'
                /\ \A k \in 1..(keep - 1) :
                      new[k] = old[Len(old) - (keep - 1) + k]]_vars

\* C32 witness: more samples were recorded than the window holds, and the
\* window is full with the oldest of them gone.
C32_Witness ==
    /\ sent["c1"] = max_history + 2
    /\ Len(bandwidth_monitors["c1"].frame_times) = max_history
    /\ bandwidth_monitors["c1"].frame_times[1].at > 1


\* C33: whatever values set_quality and set_fps are given, and whatever the
\* adaptive adjustments do, every client's quality is within 1..100 and its
\* fps within 1..60.
C33_QualityAndFpsInRange ==
    /\ \A c \in DOMAIN client_quality : client_quality[c] \in 1..100
    /\ \A c \in DOMAIN client_fps : client_fps[c] \in 1..60

\* C33 witness: a subscribed client whose quality was set above the range
\* and whose fps was set below it holds the limits, not the values given.
C33_Witness ==
    /\ "c1" \in DOMAIN bandwidth_monitors
    /\ client_quality["c1"] = 100
    /\ client_fps["c1"] = 1
    /\ sent["c1"] > 0


\* C34 (as claimed): whenever no create or close is inside its critical
\* section (the pool lock is free), the pool's maps have the same keys: the
\* ids with an activity timestamp are the ids with a page.
C34_MapsHaveSameKeys ==
    pool_lock.holder = "none" => Keys(session_timestamps) = pages


\* C35 (as claimed): a frame capture leaves the activity timestamps as they
\* are, so a session that is only streamed, without input, is eventually
\* closed by the reaper.
C35_StreamedSessionReaped ==
    /\ [][video' # video => session_timestamps' = session_timestamps]_vars
    /\ <>("s1" \notin pages)


\* C36 (as claimed): whenever the reaper removes a session from the pool,
\* that session's last activity is, at that moment, older than the idle
\* timeout.
C36_ReapedOnlyIfStale ==
    [][\A sid \in PoolIds :
          (/\ task[ReaperTask].pc = "cs_rpc"
           /\ task[ReaperTask].cs = sid
           /\ sid \in pages
           /\ sid \notin pages')
          => Idle(sid)]_vars


\* C37: no task holds the peer-registry lock and the session-pool lock at the
\* same time, and no task waits for one of the two while holding the other,
\* so no lock-order cycle between the two locks can form.
C37_NeverBothLocks ==
    \A t \in Tasks :
        /\ ~(mgr_lock.holder = t /\ pool_lock.holder = t)
        /\ ~(mgr_lock.holder = t /\ (\E i \in 1..Len(pool_lock.waiters) : pool_lock.waiters[i] = t))
        /\ ~(pool_lock.holder = t /\ (\E i \in 1..Len(mgr_lock.waiters) : mgr_lock.waiters[i] = t))

\* a disconnecting peer has left close_peer and is closing its session under
\* the pool lock while another task holds the registry lock
C37_Witness ==
    /\ pool_lock.holder = "w1"
    /\ task["w1"].pc = "cs_rpc"
    /\ mgr_lock.holder \in Tasks \ {"w1"}


\* C39 (as claimed): no captured chunk is carried by two of the frames recv
\* returned, so a recv with no new chunk since the previous one is silence.
C39_ChunkDeliveredOnce ==
    \A i, j \in 1..Len(audio.data) :
        (i < j /\ audio.data[i] # 0) => audio.data[j] # audio.data[i]


\* C38: a create_session whose context, page or CDP set-up raises ends with
\* the error, adds no entry for the id to any pool map, leaves the session
\* count below the maximum it was checked against and does not keep the pool
\* lock, so that a later create of the same id passes the same checks.
C38_FailedCreateLeavesNothing ==
    [][\A t \in HttpTasks :
          (task[t].pc = "create_rpc" /\ task'[t].pc = "done"
                                     /\ task'[t].res = "Internal")
          => /\ pages' = pages
             /\ viewport' = viewport
             /\ session_timestamps' = session_timestamps
             /\ task'[t].sid \notin pages'
             /\ Cardinality(pages') < browser_max_sessions
             /\ pool_lock'.holder # t]_vars

\* C38 witness: a create of an id failed in the driver, and a later create
\* of the same id has succeeded.
C38_Witness ==
    \E t, u \in HttpTasks :
        /\ task[t].pc = "done" /\ task[t].op = "create"
        /\ task[t].res = "Internal"
        /\ task[u].pc = "done" /\ task[u].op = "create"
        /\ task[u].res = "Session"
        /\ task[u].sid = task[t].sid
        /\ task[t].sid \in pages


\* C40 (as claimed): a client that is not connected has no entry in
\* client_quality, client_fps, client_sessions, bandwidth_monitors,
\* adaptive_mode or client_audio_sessions, and every audio capture has a
\* connected subscriber.
C40_NothingLeftAfterDisconnect ==
    /\ \A c \in ClientIds \ connected :
          /\ c \notin DOMAIN client_quality
          /\ c \notin DOMAIN client_fps
          /\ c \notin DOMAIN client_sessions
          /\ c \notin DOMAIN bandwidth_monitors
          /\ c \notin DOMAIN adaptive_mode
          /\ c \notin DOMAIN client_audio_sessions
    /\ \A sid \in audio_captures :
          AudioClientsOf(client_audio_sessions, sid) \cap connected # {}

=============================================================================
